---- MODULE Spec2Model ----
(***************************************************************************)
(* A model of apns2/client.py: APNsClient, a client that sends push        *)
(* notifications over one HTTP/2 connection, and its batch scheduler       *)
(* send_notification_batch, which keeps as many request streams open as    *)
(* the peer's SETTINGS frame allows and collects responses in submission   *)
(* order.                                                                  *)
(*                                                                         *)
(* The client runs one thread of control: pc is its position.  The HTTP/2  *)
(* connection (hyper's HTTP20Connection) is the environment: it accepts or *)
(* refuses connections and requests, delivers responses in any order and   *)
(* lets the peer revise max_concurrent_streams at any time.                *)
(***************************************************************************)
EXTENDS Integers, Sequences, FiniteSets, TLC

VARIABLES
    \* -- the HTTP/2 connection (self.__connection), the environment
    connected,                    \* connection.connect() has succeeded
    remote_max_concurrent_streams,\* connection.remote_settings.max_concurrent_streams
    next_stream_id,               \* the id the next request() returns
    arrived,                      \* the streams of the running call whose
                                  \* response is available at the transport
    responses,                    \* stream id -> the response get_response gave
                                  \* the running call
    \* -- the client's fields
    max_concurrent_streams,                 \* self.__max_concurrent_streams
    previous_server_max_concurrent_streams, \* self.__previous_server_max_concurrent_streams
    \* -- the running call and its locals
    pc,                 \* "idle" "connect" "loop" "drain" "single" "done" "raised"
    op,                 \* "none" "batch" "single" "connect" "update"
    notifications,      \* the input sequence (of tokens)
    next_notification,  \* index of next_notification; Len + 1 is None
    open_streams,       \* the deque of RequestStream(stream_id, token)
    pending_stream,     \* the RequestStream being waited on, or <<>>
    results,            \* the dict token -> result
    retries,            \* connect's local, while connect runs or ended the call
    error,              \* the exception that left the call
    retval,             \* the value the call returned: <<>> or <<results>>
    \* -- what an observer of the call sees
    submitted,          \* the RequestStreams of the requests made, in order
    waits,              \* the stream ids get_notification_result was called on
    attempts,           \* connection.connect() calls made by the connect that
                        \* runs or that ended the call
    last_update,        \* the branch the last update_max_concurrent_streams took
    request             \* the last send_notification_async of the call: its
                        \* arguments and the headers it passed to
                        \* connection.request, or <<>>

vars == <<connected, remote_max_concurrent_streams, next_stream_id, arrived, responses,
          max_concurrent_streams, previous_server_max_concurrent_streams,
          pc, op, notifications, next_notification, open_streams,
          pending_stream, results, retries, error, retval,
          submitted, waits, attempts, last_update, request>>

conn_vars == <<connected, remote_max_concurrent_streams, next_stream_id, arrived, responses>>
limit_vars == <<max_concurrent_streams, previous_server_max_concurrent_streams, last_update>>
batch_vars == <<notifications, next_notification, open_streams, pending_stream, results>>

(***************************************************************************)
(* Bounds of the model.                                                    *)
(***************************************************************************)
MaxNotifications == 3
MaxStreams == 3

Tokens == {"t1", "t2", "t3"}

\* The raw limits the peer may advertise.
RawLimits == {-1, 0, 2, 1001}

(***************************************************************************)
(* Program constants.                                                      *)
(***************************************************************************)
CONCURRENT_STREAMS_SAFETY_MAXIMUM == 1000
MAX_CONNECTION_RETRIES == 3

\* Python's None, and a value v held where None may be: <<>> and <<v>>.
None == <<>>
Some(v) == <<v>>

(***************************************************************************)
(* Responses.  A response has a status and a body; the body either decodes *)
(* to a JSON object with a reason field or does not decode.                *)
(***************************************************************************)
Reasons == {"Unregistered", "Success"}

Response(s, d, r) == [status |-> s, decodable |-> d, reason |-> r]

Responses ==
    {Response(200, TRUE, "")}
        \cup {Response(410, TRUE, r) : r \in Reasons}
        \cup {Response(400, FALSE, "")}

NoError == [kind |-> "none", reason |-> ""]
Raise(k, r) == [kind |-> k, reason |-> r]

RequestStream(sid, tok) == [stream_id |-> sid, token |-> tok]

RECURSIVE SeqsUpTo(_, _)
SeqsUpTo(S, n) ==
    IF n = 0 THEN {<<>>}
    ELSE LET shorter == SeqsUpTo(S, n - 1)
         IN shorter \cup {Append(s, x) : s \in {q \in shorter : Len(q) = n - 1}, x \in S}

\* The position of x in s, or Len(s) + 1.
RECURSIVE FirstIndex(_, _, _)
FirstIndex(s, x, i) ==
    IF i > Len(s) \/ s[i] = x THEN i ELSE FirstIndex(s, x, i + 1)

TokenOrder == <<"t1", "t2", "t3">>

\* The inputs of a batch.  The client never looks into a token, so an input is
\* taken up to a renaming of its tokens: the tokens first occur in TokenOrder.
Inputs ==
    {ns \in SeqsUpTo(Tokens, MaxNotifications) :
        \A i \in 1..Len(ns) :
            FirstIndex(TokenOrder, ns[i], 1) <=
                1 + Cardinality({ns[j] : j \in 1..(i - 1)})}

(***************************************************************************)
(* The arguments of a send: the members of NotificationPriority with their *)
(* values, the default priority, topics and expirations (None, or an       *)
(* integer).                                                               *)
(***************************************************************************)
NotificationPriority == {"Immediate", "Delayed"}

priority_value(p) == IF p = "Immediate" THEN "10" ELSE "5"

DEFAULT_APNS_PRIORITY == "Immediate"

Topics == {"com.example.app", "com.example.voip"}

Expirations == {None} \cup {Some(n) : n \in {-7, 0, 5, 100, 1478000000}}

\* '%d' % n for an integer n: its decimal digits, after a minus sign when it
\* is negative.
Digit(d) == <<"0", "1", "2", "3", "4", "5", "6", "7", "8", "9">>[d + 1]

RECURSIVE Digits(_)
Digits(n) == IF n < 10 THEN Digit(n) ELSE Digits(n \div 10) \o Digit(n % 10)

format_d(n) == IF n < 0 THEN "-" \o Digits(0 - n) ELSE Digits(n)

\* A header dict with one more item.
SetItem(h, k, v) == [x \in DOMAIN h \cup {k} |-> IF x = k THEN v ELSE h[x]]

\* Headers that leave out an expiration of 0 (if expiration: for
\* if expiration is not None:).
headers_without_zero_expiration(topic, priority, expiration) ==
    LET h1 == [k \in {"apns-topic"} |-> topic]
        h2 == IF priority # DEFAULT_APNS_PRIORITY
              THEN SetItem(h1, "apns-priority", priority_value(priority))
              ELSE h1
    IN IF expiration # None /\ expiration[1] # 0
       THEN SetItem(h2, "apns-expiration", format_d(expiration[1]))
       ELSE h2

\* The headers send_notification_async builds.
headers(topic, priority, expiration) ==
    LET h1 == [k \in {"apns-topic"} |-> topic]
        h2 == IF priority # DEFAULT_APNS_PRIORITY
              THEN SetItem(h1, "apns-priority", priority_value(priority))
              ELSE h1
    IN IF expiration # None
       THEN SetItem(h2, "apns-expiration", format_d(expiration[1]))
       ELSE h2

\* Requests made on the connection so far (HTTP/2 client stream ids are odd).
Issued == (next_stream_id - 1) \div 2


\* An update_max_concurrent_streams without its lower clamp (a raw value
\* below 1 is taken as it is).
update_without_lower_clamp(previous, current, raw) ==
    IF Some(raw) = previous
    THEN [previous |-> previous, max |-> current, branch |-> "unchanged",
          returns |-> None]
    ELSE IF raw > CONCURRENT_STREAMS_SAFETY_MAXIMUM
    THEN [previous |-> Some(raw), max |-> Some(CONCURRENT_STREAMS_SAFETY_MAXIMUM),
          branch |-> "too_high", returns |-> None]
    ELSE [previous |-> Some(raw), max |-> Some(raw), branch |-> "set",
          returns |-> None]

\* An update_max_concurrent_streams whose upper clamp is off by one (>= for >)
\* and clamps to one less.
update_clamps_early(previous, current, raw) ==
    IF Some(raw) = previous
    THEN [previous |-> previous, max |-> current, branch |-> "unchanged",
          returns |-> None]
    ELSE IF raw >= CONCURRENT_STREAMS_SAFETY_MAXIMUM
    THEN [previous |-> Some(raw),
          max |-> Some(CONCURRENT_STREAMS_SAFETY_MAXIMUM - 1),
          branch |-> "too_high", returns |-> None]
    ELSE IF raw < 1
    THEN [previous |-> Some(raw), max |-> Some(1), branch |-> "less_than_1",
          returns |-> None]
    ELSE [previous |-> Some(raw), max |-> Some(raw), branch |-> "set",
          returns |-> None]

\* An update_max_concurrent_streams without its early return: an unchanged
\* raw value is processed again.
update_without_early_return(previous, current, raw) ==
    IF raw > CONCURRENT_STREAMS_SAFETY_MAXIMUM
    THEN [previous |-> Some(raw), max |-> Some(CONCURRENT_STREAMS_SAFETY_MAXIMUM),
          branch |-> "too_high", returns |-> None]
    ELSE IF raw < 1
    THEN [previous |-> Some(raw), max |-> Some(1), branch |-> "less_than_1",
          returns |-> None]
    ELSE [previous |-> Some(raw), max |-> Some(raw), branch |-> "set",
          returns |-> None]

\* An update_max_concurrent_streams that records the clamped value, not the
\* raw one, as the last value seen.
update_records_clamped(previous, current, raw) ==
    IF Some(raw) = previous
    THEN [previous |-> previous, max |-> current, branch |-> "unchanged",
          returns |-> None]
    ELSE IF raw > CONCURRENT_STREAMS_SAFETY_MAXIMUM
    THEN [previous |-> Some(CONCURRENT_STREAMS_SAFETY_MAXIMUM),
          max |-> Some(CONCURRENT_STREAMS_SAFETY_MAXIMUM),
          branch |-> "too_high", returns |-> None]
    ELSE IF raw < 1
    THEN [previous |-> Some(1), max |-> Some(1), branch |-> "less_than_1",
          returns |-> None]
    ELSE [previous |-> Some(raw), max |-> Some(raw), branch |-> "set",
          returns |-> None]

\* An update_max_concurrent_streams that reads the connection's value only
\* while none has been seen: the limit is set once and never refreshed.
update_reads_once(previous, current, raw) ==
    IF previous # None
    THEN [previous |-> previous, max |-> current, branch |-> "unchanged",
          returns |-> None]
    ELSE IF raw > CONCURRENT_STREAMS_SAFETY_MAXIMUM
    THEN [previous |-> Some(raw), max |-> Some(CONCURRENT_STREAMS_SAFETY_MAXIMUM),
          branch |-> "too_high", returns |-> None]
    ELSE IF raw < 1
    THEN [previous |-> Some(raw), max |-> Some(1), branch |-> "less_than_1",
          returns |-> None]
    ELSE [previous |-> Some(raw), max |-> Some(raw), branch |-> "set",
          returns |-> None]

(***************************************************************************)
(* update_max_concurrent_streams, as a function of the two fields and the  *)
(* raw value read from the connection: the fields afterwards, and the      *)
(* branch taken (each branch but the first logs one line), and the value   *)
(* returned: no branch returns a value, so each returns None.              *)
(***************************************************************************)
update_max_concurrent_streams(previous, current, raw) ==
    IF Some(raw) = previous
    THEN [previous |-> previous, max |-> current, branch |-> "unchanged",
          returns |-> None]
    ELSE IF raw > CONCURRENT_STREAMS_SAFETY_MAXIMUM
    THEN [previous |-> Some(raw), max |-> Some(CONCURRENT_STREAMS_SAFETY_MAXIMUM),
          branch |-> "too_high", returns |-> None]
    ELSE IF raw < 1
    THEN [previous |-> Some(raw), max |-> Some(1), branch |-> "less_than_1",
          returns |-> None]
    ELSE [previous |-> Some(raw), max |-> Some(raw), branch |-> "set",
          returns |-> None]

\* A should_send_notification that admits only with no stream open: the
\* requests go out one at a time.
should_send_when_idle(has_next, n_open, limit) ==
    has_next /\ limit # None /\ n_open < 1

\* A should_send_notification that does not count the open streams.
should_send_unbounded(has_next, n_open, limit) ==
    has_next /\ limit # None /\ 0 < limit[1]

\* A should_send_notification that admits at the limit (<= for <).
should_send_at_limit(has_next, n_open, limit) ==
    has_next /\ limit # None /\ n_open <= limit[1]

\* should_send_notification; has_next is "notification is not None".  The
\* comparison with a limit that is still None raises TypeError.
should_send_notification(has_next, n_open, limit) ==
    has_next /\ limit # None /\ n_open < limit[1]

should_send_raises(has_next, limit) == has_next /\ limit = None

\* A get_notification_result that takes a body it cannot decode for an empty
\* reason instead of raising.
get_notification_result_lenient(response) ==
    IF response.status = 200
    THEN [raised |-> FALSE, value |-> "Success"]
    ELSE [raised |-> FALSE, value |-> response.reason]

\* get_notification_result on an available response: the value returned, or
\* raised when the body of a non-200 response does not decode.
get_notification_result(response) ==
    IF response.status = 200
    THEN [raised |-> FALSE, value |-> "Success"]
    ELSE IF response.decodable
    THEN [raised |-> FALSE, value |-> response.reason]
    ELSE [raised |-> TRUE, value |-> ""]

\* A connect that loops once more (<= for <).
connect_retry_once_more(n) == n <= MAX_CONNECTION_RETRIES

\* The while condition of connect.
connect_retry(n) == n < MAX_CONNECTION_RETRIES

\* A loop that ends with the input, whatever is still open.
batch_continue_input_only(n_open, has_next) == has_next

\* The while condition of send_notification_batch.
batch_continue(n_open, has_next) == n_open > 0 \/ has_next

\* open_streams.pop(): the newest item instead of the oldest.
pop_newest(q) == [item |-> q[Len(q)], rest |-> SubSeq(q, 1, Len(q) - 1)]

\* open_streams.popleft(): the item popped and the deque left.
popleft(q) == [item |-> Head(q), rest |-> Tail(q)]

\* An iterator that is not advanced.
iterator_stays(i) == i

\* next(notification_iterator, None), on the index of the current element.
iterator_next(i) == i + 1

\* send_notification's test of the result: it raises when this holds.
result_is_failure(result) == result # "Success"

HasNext == next_notification <= Len(notifications)

(***************************************************************************)
(* Initial state: a client just constructed, not connected.                *)
(***************************************************************************)
InitWith(limits) ==
    /\ connected = FALSE
    /\ remote_max_concurrent_streams \in limits
    /\ next_stream_id = 1
    /\ arrived = {}
    /\ responses = <<>>
    /\ max_concurrent_streams = None
    /\ previous_server_max_concurrent_streams = None
    /\ pc = "idle"
    /\ op = "none"
    /\ notifications = <<>>
    /\ next_notification = 1
    /\ open_streams = <<>>
    /\ pending_stream = None
    /\ results = <<>>
    /\ retries = 0
    /\ error = NoError
    /\ retval = None
    /\ submitted = <<>>
    /\ waits = <<>>
    /\ attempts = 0
    /\ last_update = "none"
    /\ request = None

Init == InitWith(RawLimits)

\* No call is running: a new one may start.
Callable == pc \in {"idle", "done", "raised"}

\* The locals of a call that starts, and the record of the call before it
\* cleared.
Enter(o, ns) ==
    /\ op' = o
    /\ notifications' = ns
    /\ next_notification' = 1
    /\ open_streams' = <<>>
    /\ results' = <<>>
    /\ retries' = 0
    /\ retval' = None
    /\ attempts' = 0
    /\ arrived' = {}
    /\ responses' = <<>>
    /\ waits' = <<>>
    /\ request' = None

(***************************************************************************)
(* The environment.                                                        *)
(***************************************************************************)
\* The peer sends a SETTINGS frame that revises max_concurrent_streams.
peer_settings(r) ==
    /\ connected
    /\ r # remote_max_concurrent_streams
    /\ remote_max_concurrent_streams' = r
    /\ UNCHANGED <<connected, next_stream_id, arrived, responses, limit_vars,
                   pc, op, batch_vars, retries, error, retval, submitted,
                   waits, attempts, request>>

\* The response to a stream of the running call becomes available at the
\* transport.
response_arrives(sid) ==
    /\ ~Callable
    /\ sid \in {submitted[i].stream_id : i \in 1..Len(submitted)} \ arrived
    /\ arrived' = arrived \cup {sid}
    /\ UNCHANGED <<connected, remote_max_concurrent_streams, next_stream_id,
                   responses, limit_vars, pc, op, batch_vars, retries, error,
                   retval, submitted, waits, attempts, request>>

\* connection.request(...) accepted for token tok: a new stream.  so_far is
\* the record of the requests the running call has made.
Request(tok, so_far) ==
    /\ connected' = TRUE
    /\ next_stream_id' = next_stream_id + 2
    /\ submitted' = Append(so_far, RequestStream(next_stream_id, tok))
    /\ UNCHANGED remote_max_concurrent_streams

\* send_notification_async for token tok, its request accepted: the headers
\* are built and passed to connection.request.  A batch and a single send
\* of the model pass on the topic they were given and the defaults of
\* priority and expiration.
SendAsync(tok, topic, priority, expiration, so_far) ==
    /\ Request(tok, so_far)
    /\ request' = Some([topic |-> topic, priority |-> priority,
                        expiration |-> expiration,
                        headers |-> headers(topic, priority, expiration)])

DefaultTopic == "com.example.app"

\* connection.get_response(sid) gives resp: the response has arrived.
GetResponse(sid, resp) ==
    /\ sid \in arrived
    /\ responses' = [s \in DOMAIN responses \cup {sid} |->
                        IF s = sid THEN resp ELSE responses[s]]

\* The fields after update_max_concurrent_streams reads the connection.
Refresh ==
    LET u == update_max_concurrent_streams(previous_server_max_concurrent_streams,
                                           max_concurrent_streams,
                                           remote_max_concurrent_streams)
    IN /\ previous_server_max_concurrent_streams' = u.previous
       /\ max_concurrent_streams' = u.max
       /\ last_update' = u.branch

(***************************************************************************)
(* connect                                                                 *)
(***************************************************************************)
\* A call of connect by the user.
call_connect ==
    /\ Callable
    /\ Enter("connect", <<>>)
    /\ pc' = "connect"
    /\ pending_stream' = None
    /\ error' = NoError
    /\ submitted' = <<>>
    /\ UNCHANGED <<connected, remote_max_concurrent_streams, next_stream_id,
                   limit_vars>>

\* One pass of connect's loop: connection.connect() returns or raises.  On
\* return connect returns: the call ends or, in send_notification_batch, goes
\* on to the head of its loop, connect's frame gone.
connect_attempt(ok) ==
    /\ pc = "connect"
    /\ connect_retry(retries)
    /\ connected => ok
    /\ IF ok
       THEN /\ connected' = TRUE
            /\ IF op = "batch"
               THEN pc' = "loop" /\ retries' = 0 /\ attempts' = 0
               ELSE pc' = "done" /\ retries' = retries /\ attempts' = attempts + 1
       ELSE /\ retries' = retries + 1
            /\ attempts' = attempts + 1
            /\ UNCHANGED <<connected, pc>>
    /\ UNCHANGED <<remote_max_concurrent_streams, next_stream_id, arrived,
                   responses, limit_vars, op, batch_vars, error, retval,
                   submitted, waits, request>>

\* The loop is left with the retries used up: raise ConnectionFailed().
connect_failed ==
    /\ pc = "connect"
    /\ ~connect_retry(retries)
    /\ pc' = "raised"
    /\ error' = Raise("ConnectionFailed", "")
    /\ UNCHANGED <<conn_vars, limit_vars, op, batch_vars, retries, retval,
                   submitted, waits, attempts, request>>

(***************************************************************************)
(* update_max_concurrent_streams called by the user.                       *)
(***************************************************************************)
call_update_max_concurrent_streams ==
    /\ Callable
    /\ Enter("update", <<>>)
    /\ Refresh
    /\ pc' = "done"
    /\ pending_stream' = None
    /\ error' = NoError
    /\ submitted' = <<>>
    /\ UNCHANGED <<connected, remote_max_concurrent_streams, next_stream_id>>

(***************************************************************************)
(* send_notification_batch                                                 *)
(***************************************************************************)
\* A send_notification_batch that does not call connect: it goes straight to
\* its loop.
send_notification_batch_unconnected(ns) ==
    /\ Callable
    /\ Issued + Len(ns) <= MaxStreams
    /\ Enter("batch", ns)
    /\ pc' = "loop"
    /\ pending_stream' = None
    /\ error' = NoError
    /\ submitted' = <<>>
    /\ UNCHANGED <<connected, remote_max_concurrent_streams, next_stream_id,
                   limit_vars>>

\* The call, up to its call of connect: the iterator and its first element.
send_notification_batch(ns) ==
    /\ Callable
    /\ Issued + Len(ns) <= MaxStreams
    /\ Enter("batch", ns)
    /\ pc' = "connect"
    /\ pending_stream' = None
    /\ error' = NoError
    /\ submitted' = <<>>
    /\ UNCHANGED <<connected, remote_max_concurrent_streams, next_stream_id,
                   limit_vars>>

\* The while condition is false: return results.
batch_return ==
    /\ pc = "loop"
    /\ ~batch_continue(Len(open_streams), HasNext)
    /\ pc' = "done"
    /\ retval' = Some(results)
    /\ UNCHANGED <<conn_vars, limit_vars, op, batch_vars, retries, error,
                   submitted, waits, attempts, request>>

\* One pass of the loop up to where it blocks: the limit is refreshed, then
\* either the next notification is sent (the request is accepted or raises)
\* or the oldest open stream is popped and get_notification_result is called
\* on it (the pop of an empty deque raises IndexError).
batch_iteration(accepted) ==
    /\ pc = "loop"
    /\ batch_continue(Len(open_streams), HasNext)
    /\ Refresh
    /\ IF should_send_raises(HasNext, max_concurrent_streams')
       THEN /\ accepted
            /\ pc' = "raised"
            /\ error' = Raise("TypeError", "")
            /\ UNCHANGED <<conn_vars, batch_vars, submitted, waits, request>>
       ELSE IF should_send_notification(HasNext, Len(open_streams),
                                        max_concurrent_streams')
       THEN IF accepted
            THEN /\ SendAsync(notifications[next_notification], DefaultTopic,
                              DEFAULT_APNS_PRIORITY, None, submitted)
                 /\ open_streams' =
                        Append(open_streams,
                               RequestStream(next_stream_id,
                                             notifications[next_notification]))
                 /\ next_notification' = iterator_next(next_notification)
                 /\ UNCHANGED <<pc, error, notifications, pending_stream,
                                results, waits, arrived, responses>>
            ELSE /\ pc' = "raised"
                 /\ error' = Raise("RequestFailed", "")
                 /\ UNCHANGED <<conn_vars, batch_vars, submitted, waits,
                                request>>
       ELSE IF open_streams = <<>>
       THEN /\ accepted
            /\ pc' = "raised"
            /\ error' = Raise("IndexError", "")
            /\ UNCHANGED <<conn_vars, batch_vars, submitted, waits, request>>
       ELSE /\ accepted
            /\ pending_stream' = Some(popleft(open_streams).item)
            /\ open_streams' = popleft(open_streams).rest
            /\ waits' = Append(waits, popleft(open_streams).item.stream_id)
            /\ pc' = "drain"
            /\ UNCHANGED <<conn_vars, error, notifications, next_notification,
                           results, submitted, request>>
    /\ UNCHANGED <<op, retries, retval, attempts>>

\* A drain that keeps the result a token already has (setdefault for the
\* item assignment).
batch_drain_keeps_first(resp) ==
    /\ pc = "drain"
    /\ GetResponse(pending_stream[1].stream_id, resp)
    /\ LET r == get_notification_result(resp)
           tok == pending_stream[1].token
       IN IF r.raised
          THEN /\ pc' = "raised"
               /\ error' = Raise("DecodeFailed", "")
               /\ UNCHANGED <<results, pending_stream>>
          ELSE /\ pc' = "loop"
               /\ results' = [t \in DOMAIN results \cup {tok} |->
                                 IF t \in DOMAIN results THEN results[t]
                                 ELSE r.value]
               /\ pending_stream' = None
               /\ UNCHANGED error
    /\ UNCHANGED <<connected, remote_max_concurrent_streams, next_stream_id,
                   arrived, limit_vars, op, notifications, next_notification,
                   open_streams, retries, retval, submitted, waits, attempts,
                   request>>

\* get_notification_result returns or raises for the stream waited on; the
\* result is stored under the stream's token.
batch_drain(resp) ==
    /\ pc = "drain"
    /\ GetResponse(pending_stream[1].stream_id, resp)
    /\ LET r == get_notification_result(resp)
           tok == pending_stream[1].token
       IN IF r.raised
          THEN /\ pc' = "raised"
               /\ error' = Raise("DecodeFailed", "")
               /\ UNCHANGED <<results, pending_stream>>
          ELSE /\ pc' = "loop"
               /\ results' = [t \in DOMAIN results \cup {tok} |->
                                 IF t = tok THEN r.value ELSE results[t]]
               /\ pending_stream' = None
               /\ UNCHANGED error
    /\ UNCHANGED <<connected, remote_max_concurrent_streams, next_stream_id,
                   arrived, limit_vars, op, notifications, next_notification,
                   open_streams, retries, retval, submitted, waits, attempts,
                   request>>

(***************************************************************************)
(* send_notification                                                       *)
(***************************************************************************)
\* The call up to where it blocks: send_notification_async makes the request
\* (accepted, or raising), then get_notification_result is called on the
\* stream id it returned.
send_notification(tok, accepted) ==
    /\ Callable
    /\ Issued + 1 <= MaxStreams
    /\ op' = "single"
    /\ notifications' = <<tok>>
    /\ next_notification' = 1
    /\ open_streams' = <<>>
    /\ results' = <<>>
    /\ retries' = 0
    /\ retval' = None
    /\ attempts' = 0
    /\ arrived' = {}
    /\ responses' = <<>>
    /\ IF accepted
       THEN /\ SendAsync(tok, DefaultTopic, DEFAULT_APNS_PRIORITY, None, <<>>)
            /\ pending_stream' = Some(RequestStream(next_stream_id, tok))
            /\ waits' = <<next_stream_id>>
            /\ pc' = "single"
            /\ error' = NoError
       ELSE /\ pc' = "raised"
            /\ error' = Raise("RequestFailed", "")
            /\ pending_stream' = None
            /\ submitted' = <<>>
            /\ waits' = <<>>
            /\ request' = None
            /\ UNCHANGED <<connected, remote_max_concurrent_streams,
                           next_stream_id>>
    /\ UNCHANGED limit_vars

\* get_notification_result returns or raises; a result other than 'Success'
\* raises exception_class_for_reason(result).
send_notification_result(resp) ==
    /\ pc = "single"
    /\ GetResponse(pending_stream[1].stream_id, resp)
    /\ LET r == get_notification_result(resp)
       IN IF r.raised
          THEN /\ pc' = "raised"
               /\ error' = Raise("DecodeFailed", "")
          ELSE IF result_is_failure(r.value)
          THEN /\ pc' = "raised"
               /\ error' = Raise("exception_class_for_reason", r.value)
          ELSE /\ pc' = "done"
               /\ UNCHANGED error
    /\ UNCHANGED <<connected, remote_max_concurrent_streams, next_stream_id,
                   arrived, limit_vars, op, batch_vars, retries, retval,
                   submitted, waits, attempts, request>>

(***************************************************************************)
(* The specification.                                                      *)
(***************************************************************************)
StreamIds == {2 * i - 1 : i \in 1..MaxStreams}

Next ==
    \/ \E r \in RawLimits : peer_settings(r)
    \/ \E sid \in StreamIds : response_arrives(sid)
    \/ call_connect
    \/ \E ok \in BOOLEAN : connect_attempt(ok)
    \/ connect_failed
    \/ call_update_max_concurrent_streams
    \/ \E ns \in Inputs : send_notification_batch(ns)
    \/ batch_return
    \/ \E accepted \in BOOLEAN : batch_iteration(accepted)
    \/ \E resp \in Responses : batch_drain(resp)
    \/ \E tok \in Tokens, accepted \in BOOLEAN : send_notification(tok, accepted)
    \/ \E resp \in Responses : send_notification_result(resp)

Spec == Init /\ [][Next]_vars

(***************************************************************************)
(* The same program under the scheduling the code has: the client's thread *)
(* keeps running while send_notification_batch can take a step, and the    *)
(* response to the stream it waits on becomes available.                   *)
(***************************************************************************)
AwaitedArrives ==
    /\ pc = "drain"
    /\ response_arrives(pending_stream[1].stream_id)

FairSpec ==
    /\ Init
    /\ [][Next]_vars
    /\ WF_vars(\E accepted \in BOOLEAN : batch_iteration(accepted))
    /\ WF_vars(batch_return)
    /\ WF_vars(\E resp \in Responses : batch_drain(resp))
    /\ WF_vars(AwaitedArrives)

(***************************************************************************)
(* The limit tracker alone, over the raw limits of the clamp's cases: the  *)
(* client connects, the peer revises its limit, the user calls             *)
(* update_max_concurrent_streams.                                          *)
(***************************************************************************)
ClampLimits == {-1, 0, 1, 2, 500, 1000, 1001, 5000}

LimitInit == InitWith(ClampLimits)

LimitNext ==
    \/ \E r \in ClampLimits : peer_settings(r)
    \/ call_connect
    \/ \E ok \in BOOLEAN : connect_attempt(ok)
    \/ connect_failed
    \/ call_update_max_concurrent_streams

LimitSpec == LimitInit /\ [][LimitNext]_vars

(***************************************************************************)
(* send_notification_async called by the user, over the priorities, the    *)
(* expirations and the topics: the request is accepted and the stream id   *)
(* returned, or the request raises.                                        *)
(***************************************************************************)
send_notification_async(tok, topic, priority, expiration, accepted) ==
    /\ Callable
    /\ Issued + 1 <= MaxStreams
    /\ op' = "async"
    /\ notifications' = <<tok>>
    /\ next_notification' = 1
    /\ open_streams' = <<>>
    /\ pending_stream' = None
    /\ results' = <<>>
    /\ retries' = 0
    /\ attempts' = 0
    /\ arrived' = {}
    /\ responses' = <<>>
    /\ waits' = <<>>
    /\ IF accepted
       THEN /\ SendAsync(tok, topic, priority, expiration, <<>>)
            /\ pc' = "done"
            /\ error' = NoError
            /\ retval' = Some(next_stream_id)
       ELSE /\ pc' = "raised"
            /\ error' = Raise("RequestFailed", "")
            /\ retval' = None
            /\ submitted' = <<>>
            /\ request' = None
            /\ UNCHANGED <<connected, remote_max_concurrent_streams,
                           next_stream_id>>
    /\ UNCHANGED limit_vars

HeaderNext ==
    \/ call_connect
    \/ \E ok \in BOOLEAN : connect_attempt(ok)
    \/ connect_failed
    \/ \E tok \in Tokens, topic \in Topics, priority \in NotificationPriority,
          expiration \in Expirations, accepted \in BOOLEAN :
            send_notification_async(tok, topic, priority, expiration, accepted)

HeaderSpec == Init /\ [][HeaderNext]_vars


(***************************************************************************)
(* Properties.                                                             *)
(***************************************************************************)
InputTokens == {notifications[i] : i \in 1..Len(notifications)}

DistinctTokens == Cardinality(InputTokens) = Len(notifications)

BatchRunning == op = "batch" /\ pc \in {"loop", "drain"}

BatchReturned == op = "batch" /\ pc = "done"

BatchRaised == op = "batch" /\ pc = "raised"

\* Streams submitted and not yet drained: those in the deque and the one
\* popped from it that get_notification_result is waiting on.
OpenCount == Len(open_streams) + Len(pending_stream)

\* C1: when send_notification_batch returns for an input of pairwise distinct
\* tokens, the returned map has exactly the input's tokens as keys, and the
\* value under each token is the result get_notification_result gives for the
\* response to the stream that was opened for that token.
C1_ResultMapComplete ==
    (BatchReturned /\ DistinctTokens) =>
        /\ retval # None
        /\ DOMAIN retval[1] = InputTokens
        /\ Len(submitted) = Len(notifications)
        /\ \A i \in 1..Len(notifications) :
              /\ submitted[i].token = notifications[i]
              /\ submitted[i].stream_id \in DOMAIN responses
              /\ ~get_notification_result(responses[submitted[i].stream_id]).raised
              /\ retval[1][notifications[i]] =
                    get_notification_result(responses[submitted[i].stream_id]).value

\* Three distinct tokens, answered differently, returned.
C1_Witness ==
    /\ BatchReturned
    /\ DistinctTokens
    /\ Len(notifications) = 3
    /\ retval[1]["t1"] = "Unregistered"
    /\ retval[1]["t2"] = "Success"
    /\ responses[submitted[3].stream_id].status = 410

\* C2, as stated: while the batch runs the number of open streams never
\* exceeds the effective limit, also when the limit is lowered while streams
\* are open.
C2_OpenNeverExceedsLimit ==
    (BatchRunning /\ max_concurrent_streams # None) =>
        OpenCount <= max_concurrent_streams[1]

\* C2, amended: a step of the batch that raises the number of open streams
\* leaves it at most the effective limit that step computed (so the count
\* exceeds the limit only after the peer lowered it, and then does not grow).
C2_AdmissionWithinLimit ==
    [][(op' = "batch" /\ OpenCount' > OpenCount) =>
          /\ max_concurrent_streams' # None
          /\ OpenCount' <= max_concurrent_streams'[1]]_vars

\* An admission that fills the limit of 2.
C2_Witness ==
    /\ BatchRunning
    /\ pc = "loop"
    /\ Len(open_streams) = 2
    /\ max_concurrent_streams = Some(2)
    /\ previous_server_max_concurrent_streams = Some(2)

\* C3: the k-th call of get_notification_result waits on the k-th stream
\* submitted, and only on streams already submitted.
C3_DrainsInSubmissionOrder ==
    op = "batch" =>
        /\ Len(waits) <= Len(submitted)
        /\ \A k \in 1..Len(waits) : waits[k] = submitted[k].stream_id

\* The scheduler waits on the first stream while only the responses to the
\* second and third are available.
C3_Witness ==
    /\ op = "batch"
    /\ pc = "drain"
    /\ Len(submitted) = 3
    /\ Len(waits) = 1
    /\ arrived = {submitted[2].stream_id, submitted[3].stream_id}

\* C4: the k-th request submitted carries the token of the k-th notification
\* of the input, each notification is submitted at most once (the requests
\* made are those of the notifications before the cursor), each on a stream
\* of its own.
C4_SubmitsInInputOrder ==
    op = "batch" =>
        /\ Len(submitted) <= Len(notifications)
        /\ pc \in {"loop", "drain", "done"} => Len(submitted) = next_notification - 1
        /\ \A k \in 1..Len(submitted) : submitted[k].token = notifications[k]
        /\ \A j, k \in 1..Len(submitted) :
              submitted[j].stream_id = submitted[k].stream_id => j = k

\* The third notification is submitted after the first was drained.
C4_Witness ==
    /\ op = "batch"
    /\ notifications = <<"t1", "t2", "t3">>
    /\ Len(submitted) = 3
    /\ Len(waits) = 1
    /\ Len(open_streams) = 2
    /\ max_concurrent_streams = Some(2)
    /\ pc = "loop"


\* C8: a call of connect makes at most 3 attempts; an attempt is made only
\* while connect runs and every attempt before it failed, and connect goes on
\* after an attempt only if that attempt failed, so it returns at the first
\* success and no attempt follows one; ConnectionFailed is raised after
\* exactly 3 failed attempts and no attempt follows it.
C8_ConnectAttemptsBounded ==
    /\ [](attempts <= 3)
    /\ [](pc = "connect" => attempts = retries)
    /\ []((op = "connect" /\ pc = "done") => (attempts = retries + 1 /\ connected))
    /\ [](error.kind = "ConnectionFailed" =>
             (pc = "raised" /\ attempts = 3 /\ retries = 3 /\ ~connected))
    /\ [][attempts' > attempts => (pc = "connect" /\ attempts = retries)]_vars
    /\ [][(pc = "connect" /\ pc' = "connect" /\ attempts' > attempts) =>
             (~connected' /\ retries' = retries + 1)]_vars

\* connect raised ConnectionFailed.
C8_Witness ==
    /\ op = "connect"
    /\ pc = "raised"
    /\ error.kind = "ConnectionFailed"
    /\ attempts = 3

\* C9: send_notification makes exactly one request and waits on exactly the
\* stream that request returned; when the response is not a success (its
\* status is not 200) it raises the error for the reason the body carries
\* (for 410 with reason Unregistered, the error for Unregistered), and it
\* returns normally when the response is a success.
C9_SingleSend ==
    (op = "single" /\ (pc \in {"single", "done"} \/ error.kind # "RequestFailed")) =>
        /\ Len(submitted) = 1
        /\ submitted[1].token = notifications[1]
        /\ waits = <<submitted[1].stream_id>>
        /\ DOMAIN responses \subseteq {submitted[1].stream_id}
        /\ pc = "single" <=> responses = <<>>
        /\ responses # <<>> =>
              LET resp == responses[submitted[1].stream_id]
              IN /\ (resp.status # 200 /\ resp.decodable) =>
                        (pc = "raised" /\
                         error = Raise("exception_class_for_reason", resp.reason))
                 /\ resp.status = 200 => (pc = "done" /\ error = NoError)

\* C10: send_notification_batch returns a map covering every input
\* notification, or raises one error and returns no map; a refused request,
\* a body that does not decode and a connect out of retries each raise, and
\* the step that raises and the steps after it submit and drain nothing.
C10_AllOrError ==
    /\ [](BatchReturned =>
             /\ retval = Some(results)
             /\ DOMAIN results = InputTokens
             /\ error = NoError)
    /\ [](BatchRaised =>
             /\ retval = None
             /\ error.kind \in {"RequestFailed", "DecodeFailed", "ConnectionFailed"})
    /\ [](op = "batch" =>
             \A sid \in DOMAIN responses :
                 (responses[sid].status # 200 /\ ~responses[sid].decodable) =>
                     (BatchRaised /\ error.kind = "DecodeFailed"))
    /\ [][(op' = "batch" /\ pc' = "raised") =>
             /\ submitted' = submitted
             /\ waits' = waits
             /\ results' = results
             /\ next_notification' = next_notification]_vars

\* The batch was aborted by a body that did not decode, with a result stored
\* and a stream still open.
C10_Witness ==
    /\ BatchRaised
    /\ error.kind = "DecodeFailed"
    /\ results # <<>>
    /\ open_streams # <<>>


\* C5: once connect has succeeded, and with every awaited response arriving,
\* send_notification_batch ends: it returns, or a refused request or a body
\* that does not decode raises (it never dies on an empty deque or an unset
\* limit).  It returns only with the input exhausted and no stream open, and
\* with the input exhausted and no stream open it does nothing but return.
C5_BatchTerminates ==
    /\ (BatchRunning ~>
           (BatchReturned \/
            (BatchRaised /\ error.kind \in {"RequestFailed", "DecodeFailed"})))
    /\ [](BatchReturned =>
             /\ ~HasNext
             /\ open_streams = <<>>
             /\ pending_stream = None
             /\ Len(submitted) = Len(notifications)
             /\ Len(waits) = Len(notifications))
    /\ [][(op = "batch" /\ pc = "loop" /\ pc' # "loop") =>
             IF ~HasNext /\ open_streams = <<>>
             THEN BatchReturned' /\ submitted' = submitted /\ waits' = waits
             ELSE ~BatchReturned' /\ error'.kind \notin {"IndexError", "TypeError"}]_vars

\* A batch of three returned while the peer advertised 0.
C5_Witness ==
    /\ BatchReturned
    /\ Len(notifications) = 3
    /\ previous_server_max_concurrent_streams = Some(0)
    /\ remote_max_concurrent_streams = 0
    /\ max_concurrent_streams = Some(1)

\* C6: when update_max_concurrent_streams reads a raw value r other than the
\* last one seen, the effective limit afterwards is 1000 for r > 1000, 1 for
\* r < 1 and r otherwise: 0, 1, 500, 1000, 1001 and 5000 give 1, 1, 500,
\* 1000, 1000 and 1000.  (Only update_max_concurrent_streams writes the last
\* raw value seen, so a step that sets it to the connection's value is one
\* of its calls.)
C6_Clamp ==
    [][\A r \in ClampLimits :
          (/\ remote_max_concurrent_streams = r
           /\ previous_server_max_concurrent_streams # Some(r)
           /\ previous_server_max_concurrent_streams' = Some(r)) =>
              /\ max_concurrent_streams' =
                     Some(IF r > 1000 THEN 1000 ELSE IF r < 1 THEN 1 ELSE r)
              /\ \A c \in {<<0, 1>>, <<1, 1>>, <<500, 500>>, <<1000, 1000>>,
                           <<1001, 1000>>, <<5000, 1000>>} :
                     r = c[1] => max_concurrent_streams' = Some(c[2])]_vars

\* The raw value 5000 was read and clamped.
C6_Witness ==
    /\ op = "update"
    /\ previous_server_max_concurrent_streams = Some(5000)
    /\ max_concurrent_streams = Some(1000)
    /\ last_update = "too_high"

\* C7: a call of update_max_concurrent_streams while the connection's raw
\* value equals the last one seen (as it does right after a call, the peer
\* silent since) takes the early return: it returns no true value, logs no
\* change and leaves the effective limit and the last raw value seen as they
\* were.  (From a state where no call runs, the step to op = "update" that
\* leaves the connection's value alone is that call.)
C7_UnchangedIsNoOp ==
    [][(/\ Some(remote_max_concurrent_streams) = previous_server_max_concurrent_streams
        /\ Callable
        /\ op' = "update"
        /\ remote_max_concurrent_streams' = remote_max_concurrent_streams) =>
           /\ max_concurrent_streams' = max_concurrent_streams
           /\ previous_server_max_concurrent_streams' =
                  previous_server_max_concurrent_streams
           /\ last_update' = "unchanged"
           /\ retval' = None]_vars

\* update_max_concurrent_streams was called again with the raw value
\* unchanged and took the early return.
C7_Witness ==
    /\ op = "update"
    /\ last_update = "unchanged"
    /\ previous_server_max_concurrent_streams = Some(remote_max_concurrent_streams)
    /\ max_concurrent_streams = Some(1000)

\* C11: an outcome is a success exactly when the response's status is 200:
\* send_notification returns normally exactly for a 200, and the result a
\* batch stores for a token (the tokens distinct) is the success value
\* exactly when the response to that token's stream had status 200, whatever
\* reason the body of a non-200 response carries.
C11_SuccessIffStatus200 ==
    /\ (op = "single" /\ responses # <<>>) =>
          (pc = "done" <=> responses[submitted[1].stream_id].status = 200)
    /\ (op = "batch" /\ DistinctTokens) =>
          \A i \in 1..Len(submitted) :
              submitted[i].token \in DOMAIN results =>
                  (results[submitted[i].token] = "Success" <=>
                       responses[submitted[i].stream_id].status = 200)

\* C12: the request send_notification_async builds always carries apns-topic
\* with the topic given; it carries apns-priority exactly when the priority
\* is not Immediate, with value 5 for Delayed; it carries apns-expiration
\* exactly when an expiration was given (0 included), as the decimal string
\* of that integer; and it carries no other header.
C12_Headers ==
    request # None =>
        LET r == request[1]
            h == r.headers
        IN /\ "apns-topic" \in DOMAIN h
           /\ h["apns-topic"] = r.topic
           /\ "apns-priority" \in DOMAIN h <=> r.priority # "Immediate"
           /\ r.priority = "Delayed" => h["apns-priority"] = "5"
           /\ "apns-expiration" \in DOMAIN h <=> r.expiration # None
           /\ \A c \in {<<-7, "-7">>, <<0, "0">>, <<5, "5">>, <<100, "100">>,
                        <<1478000000, "1478000000">>} :
                  r.expiration = Some(c[1]) => h["apns-expiration"] = c[2]
           /\ r.expiration # None =>
                  \E c \in {-7, 0, 5, 100, 1478000000} : r.expiration = Some(c)
           /\ DOMAIN h \subseteq {"apns-topic", "apns-priority", "apns-expiration"}

\* A request with priority Delayed and expiration 0 carries all three headers.
C12_Witness ==
    /\ op = "async"
    /\ request # None
    /\ request[1].priority = "Delayed"
    /\ request[1].expiration = Some(0)
    /\ DOMAIN request[1].headers = {"apns-topic", "apns-priority", "apns-expiration"}
    /\ request[1].headers["apns-expiration"] = "0"

\* C13: a step of the batch that submits a request starts with fewer streams
\* open than the effective limit, which is the clamp of the raw value the
\* connection holds in that step (the one the iteration reads).  A step of
\* the batch that starts with at most L streams open and ends with effective
\* limit L ends with at most L streams open, and the batch starts with none
\* open: so while every refresh gives the same L, never more than L streams
\* are open.  A batch that returns has submitted its input in input order and
\* has every input token in its result.
C13_AdmitsBelowFreshLimit ==
    /\ [][(op' = "batch" /\ Len(submitted') > Len(submitted)) =>
             LET r == remote_max_concurrent_streams
                 L == IF r > 1000 THEN 1000 ELSE IF r < 1 THEN 1 ELSE r
             IN /\ OpenCount < L
                /\ max_concurrent_streams' = Some(L)
                /\ OpenCount' = OpenCount + 1]_vars
    /\ [][(op' = "batch" /\ max_concurrent_streams' # None
             /\ OpenCount <= max_concurrent_streams'[1]) =>
                OpenCount' <= max_concurrent_streams'[1]]_vars
    /\ []((op = "batch" /\ pc = "connect") => OpenCount = 0)
    /\ [](BatchReturned =>
             /\ DOMAIN results = InputTokens
             /\ Len(submitted) = Len(notifications)
             /\ \A k \in 1..Len(submitted) : submitted[k].token = notifications[k])

\* Three notifications sent under a limit of 2 that the last refresh found
\* unchanged, the last of them submitted after a drain.
C13_Witness ==
    /\ BatchReturned
    /\ Len(notifications) = 3
    /\ DistinctTokens
    /\ remote_max_concurrent_streams = 2
    /\ max_concurrent_streams = Some(2)
    /\ last_update = "unchanged"
    /\ Cardinality(DOMAIN results) = 3

\* C14: send_notification_batch is past connect only with the connection
\* established; while it is in connect it has submitted nothing, waited on
\* nothing and left the limit fields alone; the limit fields and the requests
\* made change only in its loop, the connection established; a batch that
\* ConnectionFailed ended has submitted nothing and read no limit.  With an
\* empty input the batch still goes through connect and returns an empty
\* map.
C14_ConnectFirst ==
    /\ []((op = "batch" /\ pc \in {"loop", "drain", "done"}) => connected)
    /\ [][(op' = "batch" /\ pc' = "connect") =>
             /\ submitted' = <<>>
             /\ waits' = <<>>
             /\ request' = None
             /\ UNCHANGED limit_vars]_vars
    /\ [][(op = "batch" /\ ~Callable /\
             (limit_vars' # limit_vars \/ submitted' # submitted)) =>
                (pc = "loop" /\ connected)]_vars
    /\ [][(op' = "batch" /\ error'.kind = "ConnectionFailed") =>
             /\ pc = "connect" \/ UNCHANGED error
             /\ UNCHANGED limit_vars]_vars
    /\ []((op = "batch" /\ error.kind = "ConnectionFailed") =>
             /\ pc = "raised"
             /\ ~connected
             /\ submitted = <<>>
             /\ waits = <<>>
             /\ retval = None)
    /\ []((BatchReturned /\ notifications = <<>>) =>
             /\ connected
             /\ retval = Some(<<>>)
             /\ submitted = <<>>)

\* A batch with an empty input returned an empty map on a connection that
\* only its connect can have established, no limit read.
C14_Witness ==
    /\ BatchReturned
    /\ notifications = <<>>
    /\ retval = Some(<<>>)
    /\ connected
    /\ Issued = 0
    /\ max_concurrent_streams = None

\* C15: a step of a running batch leaves the deque as it is, appends the
\* stream of the request it submits, or pops the head to wait on it: nothing
\* else leaves the deque, also when the limit has dropped below the number
\* of open streams.  A step that ends with more streams open than the limit
\* it ends with has submitted nothing, and a request is submitted only with
\* fewer streams open than the limit just refreshed.  The stream waited on
\* is given up only with its result stored under its token, or by the error
\* that ends the batch; a batch that returns has waited on every stream it
\* submitted and holds a result for its token.
C15_LimitDropTolerated ==
    /\ [][(op = "batch" /\ ~Callable) =>
             \/ open_streams' = open_streams
             \/ /\ Len(submitted') = Len(submitted) + 1
                /\ open_streams' =
                       Append(open_streams, submitted'[Len(submitted')])
                /\ pending_stream' = pending_stream
             \/ /\ open_streams # <<>>
                /\ open_streams' = Tail(open_streams)
                /\ pending_stream = None
                /\ pending_stream' = Some(Head(open_streams))
                /\ waits' = Append(waits, Head(open_streams).stream_id)]_vars
    /\ [][(op = "batch" /\ ~Callable /\ max_concurrent_streams' # None
             /\ OpenCount' > max_concurrent_streams'[1]) =>
                submitted' = submitted]_vars
    /\ [][(op = "batch" /\ ~Callable /\ submitted' # submitted) =>
             /\ max_concurrent_streams' # None
             /\ Len(open_streams) < max_concurrent_streams'[1]]_vars
    /\ [][(op = "batch" /\ ~Callable /\ pending_stream # None
             /\ pending_stream' # pending_stream) =>
                /\ pending_stream' = None
                /\ pending_stream[1].token \in DOMAIN results'
                /\ pending_stream[1].stream_id \in DOMAIN responses'
                /\ results'[pending_stream[1].token] =
                       get_notification_result(
                           responses'[pending_stream[1].stream_id]).value]_vars
    /\ [](BatchReturned =>
             \A i \in 1..Len(submitted) :
                 /\ i <= Len(waits)
                 /\ waits[i] = submitted[i].stream_id
                 /\ submitted[i].token \in DOMAIN results)

\* Two streams are open over a limit lowered to 1 and a notification is
\* left: the scheduler drains the head instead of submitting.
C15_Witness ==
    /\ op = "batch"
    /\ pc = "drain"
    /\ HasNext
    /\ Len(open_streams) = 1
    /\ pending_stream = Some(submitted[1])
    /\ max_concurrent_streams = Some(1)
    /\ Len(submitted) = 2

\* C16: whenever send_notification_batch takes the drain branch the deque
\* holds a stream: the pop gives its head and never raises IndexError, for
\* every raw limit the peer advertises, 0 and negative values included.
C16_DrainOnNonEmpty ==
    /\ [](error.kind # "IndexError")
    /\ [][(op = "batch" /\ pc = "loop" /\ pc' = "drain") =>
             /\ Len(open_streams) > 0
             /\ pending_stream' = Some(Head(open_streams))]_vars
    /\ [][(op = "batch" /\ pc = "loop" /\ pc' \in {"drain", "raised"}
             /\ ~(HasNext /\ Len(open_streams) < max_concurrent_streams'[1])) =>
                (Len(open_streams) > 0 /\ pc' = "drain")]_vars
    /\ []((op = "batch" /\ pc = "drain") => pending_stream # None)

\* With notifications left, the scheduler drains under the limit 1 that a
\* negative raw value was clamped to.
C16_Witness ==
    /\ op = "batch"
    /\ pc = "drain"
    /\ HasNext
    /\ previous_server_max_concurrent_streams = Some(-1)
    /\ remote_max_concurrent_streams = -1
    /\ max_concurrent_streams = Some(1)
    /\ open_streams = <<>>

\* C17: an iteration of the batch's loop with a notification left and fewer
\* streams open than the effective limit (the clamp of the raw value it
\* reads) submits that notification and waits on nothing, unless the
\* transport refuses the request, which ends the batch; every other
\* iteration pops the head and waits on it and submits nothing.  So an
\* iteration makes one submission or one drain, never both and never
\* neither, and the end of a drain submits nothing and starts no other
\* drain.
C17_AdmitWhenPossible ==
    /\ [][(op = "batch" /\ pc = "loop" /\
             (pc' \in {"drain", "raised"} \/ submitted' # submitted)) =>
                LET r == remote_max_concurrent_streams
                    L == IF r > 1000 THEN 1000 ELSE IF r < 1 THEN 1 ELSE r
                IN IF HasNext /\ Len(open_streams) < L
                   THEN \/ /\ pc' = "loop"
                           /\ Len(submitted') = Len(submitted) + 1
                           /\ submitted'[Len(submitted')].token =
                                  notifications[next_notification]
                           /\ next_notification' = next_notification + 1
                           /\ Len(open_streams') = Len(open_streams) + 1
                           /\ waits' = waits
                        \/ /\ pc' = "raised"
                           /\ error'.kind = "RequestFailed"
                           /\ submitted' = submitted
                           /\ waits' = waits
                   ELSE /\ pc' = "drain"
                        /\ submitted' = submitted
                        /\ Len(waits') = Len(waits) + 1
                        /\ Len(open_streams') = Len(open_streams) - 1]_vars
    /\ [][(op = "batch" /\ pc = "drain") =>
             (submitted' = submitted /\ waits' = waits)]_vars

\* The second of three notifications was submitted while the first stream
\* was still open and nothing had been drained.
C17_Witness ==
    /\ op = "batch"
    /\ pc = "loop"
    /\ HasNext
    /\ Len(open_streams) = 2
    /\ waits = <<>>
    /\ max_concurrent_streams = Some(1000)

\* C18: a call of update_max_concurrent_streams returns a true value exactly
\* when the effective limit after the call differs from the one before it,
\* and a value that is not true otherwise (also when the raw value moved
\* between two values with the same clamp).
C18_ReturnsWhetherChanged ==
    [][(Callable /\ op' = "update" /\
          remote_max_concurrent_streams' = remote_max_concurrent_streams) =>
          ((retval' # None /\ retval'[1] = TRUE) <=>
               max_concurrent_streams' # max_concurrent_streams)]_vars

\* C19: the effective limit is unset exactly while no raw value has been
\* seen, and otherwise it is the clamp into [1, 1000] of the last raw value
\* seen; the last raw value seen changes only in a call of
\* update_max_concurrent_streams (by the user or by an iteration of a
\* batch), and after every such call it is the raw value the connection held
\* in that call; the admission test of a batch never reads an unset limit
\* (it never raises TypeError) and reads a limit within [1, 1000].  This
\* holds across the calls made on one client.  (From a state where no call
\* runs, the step to op = "update" that leaves the connection's value alone
\* is a call by the user; a step of a batch in its loop that leaves the loop
\* or submits is an iteration.)
C19_LimitIsClampOfLastRaw ==
    /\ [](previous_server_max_concurrent_streams = None <=>
              max_concurrent_streams = None)
    /\ [](previous_server_max_concurrent_streams # None =>
             LET r == previous_server_max_concurrent_streams[1]
             IN max_concurrent_streams =
                    Some(IF r > 1000 THEN 1000 ELSE IF r < 1 THEN 1 ELSE r))
    /\ [](max_concurrent_streams # None =>
             (1 <= max_concurrent_streams[1] /\ max_concurrent_streams[1] <= 1000))
    /\ [](error.kind # "TypeError")
    /\ [][((Callable /\ op' = "update" /\
              remote_max_concurrent_streams' = remote_max_concurrent_streams) \/
           (op = "batch" /\ pc = "loop" /\
              (pc' \in {"drain", "raised"} \/ submitted' # submitted))) =>
             /\ remote_max_concurrent_streams' = remote_max_concurrent_streams
             /\ previous_server_max_concurrent_streams' =
                    Some(remote_max_concurrent_streams)
             /\ max_concurrent_streams' # None
             /\ 1 <= max_concurrent_streams'[1]
             /\ max_concurrent_streams'[1] <= 1000]_vars
    /\ [][previous_server_max_concurrent_streams' #
              previous_server_max_concurrent_streams =>
                 ((Callable /\ op' = "update") \/ (op = "batch" /\ pc = "loop"))]_vars

\* A later batch of the client runs under the limit 1000 clamped from 1001,
\* requests having been made by the calls before it.
C19_Witness ==
    /\ op = "batch"
    /\ pc = "loop"
    /\ Len(submitted) >= 1
    /\ Issued > Len(submitted)
    /\ previous_server_max_concurrent_streams = Some(1001)
    /\ max_concurrent_streams = Some(1000)

\* C20: also when tokens repeat in the input, a batch that returns has made
\* one request per notification, each on a stream of its own, and has waited
\* on each of them in submission order; the map returned has exactly the
\* distinct tokens of the input as keys; and the value under a token is the
\* result for the response to the last request submitted for that token.
\* While the batch runs, the value under a token is the result for the last
\* of its streams drained so far.
C20_LastOccurrenceWins ==
    /\ BatchReturned =>
          /\ Len(submitted) = Len(notifications)
          /\ \A i \in 1..Len(notifications) : submitted[i].token = notifications[i]
          /\ \A i, j \in 1..Len(submitted) :
                submitted[i].stream_id = submitted[j].stream_id => i = j
          /\ waits = [i \in 1..Len(submitted) |-> submitted[i].stream_id]
          /\ DOMAIN retval[1] = InputTokens
          /\ \A t \in InputTokens :
                LET last == CHOOSE i \in 1..Len(notifications) :
                                /\ notifications[i] = t
                                /\ \A j \in (i + 1)..Len(notifications) :
                                       notifications[j] # t
                IN retval[1][t] =
                       get_notification_result(
                           responses[submitted[last].stream_id]).value
    /\ (op = "batch" /\ pc \in {"loop", "drain"}) =>
          \A t \in DOMAIN results :
              LET drained == {i \in 1..Len(waits) :
                                 /\ submitted[i].token = t
                                 /\ submitted[i].stream_id \in DOMAIN responses}
                  last == CHOOSE i \in drained : \A j \in drained : j <= i
              IN /\ drained # {}
                 /\ results[t] =
                        get_notification_result(
                            responses[submitted[last].stream_id]).value

\* The token t1 was sent first and last; its first response was a success and
\* its last a rejection, and the map holds the rejection under t1.
C20_Witness ==
    /\ BatchReturned
    /\ notifications = <<"t1", "t2", "t1">>
    /\ responses[submitted[1].stream_id].status = 200
    /\ responses[submitted[3].stream_id] = Response(410, TRUE, "Unregistered")
    /\ DOMAIN retval[1] = {"t1", "t2"}
    /\ retval[1]["t1"] = "Unregistered"

====
